---- MODULE Spec2Model ----
(***************************************************************************)
(* Lightning League: the live match engine.                                *)
(*                                                                         *)
(*  Part I  (Spec)        the shared match document, the coach's           *)
(*                        Create/Begin/Cancel, joinMatch, and every        *)
(*                        participant's endGame persistence and match      *)
(*                        completion check, one store operation per step.  *)
(*  Part II (SessionSpec) one participant's PracticeMode session: the      *)
(*                        React state, its effects, its timers and the     *)
(*                        closures the timer callbacks capture.            *)
(*  Part III (BankSpec,    the question bank (create, update, delete, CSV   *)
(*   SettingsSpec)        import), the questions a match is loaded with,   *)
(*                        and the game settings lookup.                    *)
(***************************************************************************)
EXTENDS Integers, Sequences, FiniteSets, TLC

(***************************************************************************)
(* Bounds                                                                  *)
(***************************************************************************)
\* how many times one participant may open the match play page
MaxRuns == 2

\* questions of one session, words of one question
MaxQuestions == 2
MaxWords == 1
\* settings a team may configure (seconds)
MaxQuestionTime == 2
MaxHesitationTime == 1
\* handleBuzz calls against one started question
MaxBuzzAttempts == 2

Players == {"p1", "p2"}
Coach == "coach"
Recipients == Players \cup {Coach}

VARIABLES
    \* ---- Part I: Firestore documents --------------------------------
    status,             \* games/{id}.status; "none" before createGame
    playerIds,          \* games/{id}.playerIds
    matchHistory,       \* number of matchHistory documents per playerId
    gamesPlayed,        \* players/{id}.gamesPlayed
    notifications,      \* number of match_end notifications per userId
    \* ---- Part I: the coach's CreateMatch component -------------------
    coachMatch,         \* status of the local `match` state, "null" if unset
    joinedPlayers,      \* local `joinedPlayers` state
    \* ---- Part I: one participant client each -------------------------
    pc,                 \* position inside MatchPlayPage / endGame
    joinPc,             \* position inside joinMatch
    gameData,           \* endGame's local `gameData`
    completedPlayerIds, \* endGame's local `completedPlayerIds`
    notifyTodo,         \* players the fan-out loop has still to visit
    runs,               \* sessions opened so far
    identity,           \* what the last endGame call found of the
                        \* participant's identity
    statusWrites        \* updateGame({status:'completed'}) calls done by
                        \* this participant's completion checks

VARIABLES
    \* ---- Part II: PracticeMode props ---------------------------------
    questions,            \* the session's Question list (subjectArea, words)
    gameSettings,         \* questionTime, hesitationTime, wpm
    \* ---- Part II: PracticeMode state (useState) ----------------------
    currentQuestionIndex,
    playerScore,
    timer,
    revealedWordsCount,
    isQuestionLive,
    showResult,
    questionStartTime,    \* Null, or kept as the seconds elapsed since it
                          \* was set: Date.now() - questionStartTime
    questionFullyRevealed,
    buzzTimes,            \* each latency tagged with the question it is of
    correctBySubject,
    totalBySubject,
    hasBuzzed,
    showHesitation,
    hesitationTimer,      \* Null or seconds left
    hesitationComplete,
    \* ---- Part II: the browser ----------------------------------------
    timers,               \* pending setInterval/setTimeout callbacks in
                          \* creation order, each with the render it closed over
    mounted,              \* the component is mounted
    resultEntries,        \* the matchHistory records endGame has built
    \* ---- Part II: observation ----------------------------------------
    outcomes,             \* per question index, the resolutions applied
    buzzAttempts,         \* handleBuzz calls since the question started
    buzzAccepted          \* ... of which passed the guard

sessionVars == <<questions, gameSettings, currentQuestionIndex, playerScore,
                 timer, revealedWordsCount, isQuestionLive, showResult,
                 questionStartTime, questionFullyRevealed, buzzTimes,
                 correctBySubject, totalBySubject, hasBuzzed, showHesitation,
                 hesitationTimer, hesitationComplete, timers, mounted,
                 resultEntries, outcomes, buzzAttempts, buzzAccepted>>

matchVars == <<status, playerIds, matchHistory, gamesPlayed, notifications,
               coachMatch, joinedPlayers, pc, joinPc, gameData,
               completedPlayerIds, notifyTodo, runs, statusWrites, identity>>

VARIABLES
    \* ---- Part III: Firestore documents ------------------------------
    questionDocs,       \* questions/{id}: the distractors of each document
    nextQuestionId,     \* the next id doc(questionsCollection) hands out
    settingsDocs,       \* settings/{teamId} and settings/default
    matchQuestionIds,   \* games/{id}.questionIds
    \* ---- Part III: MatchPlayPage ------------------------------------
    matchPage,          \* what loadMatch left: error, or the questions
    \* ---- Part III: observation --------------------------------------
    settingsCall        \* the last getGameSettings call and its result

bankVars == <<questionDocs, nextQuestionId, matchQuestionIds, matchPage>>
settingsVars == <<settingsDocs, settingsCall>>

vars == <<matchVars, sessionVars, bankVars, settingsVars>>

NoGameData == [status |-> "none", playerIds |-> {}]

(***************************************************************************)
(* Part I: store operations                                                *)
(***************************************************************************)

\* updateDoc(gameRef, {status}) : an unconditional write
UpdateGame(newStatus) == status' = newStatus

\* setDoc(doc(matchHistoryCollection), ...) : always a fresh document
CreateMatchHistory(mh, p) == [mh EXCEPT ![p] = @ + 1]

\* getDocs(where gameId == ...) mapped to the playerId of each document
GetMatchHistoriesByGameId == {q \in Players : matchHistory[q] > 0}

\* setDoc(doc(notificationsCollection), ...)
CreateNotification(n, u) == [n EXCEPT ![u] = @ + 1]

\* what one endGame call finds: useAuth()'s loading, currentUser and
\* userData, the gameId state, auth.currentUser when the guards read it and
\* when it is read again just before the write.  A uid is the
\* participant's own, somebody else's, or missing.
Uids == {"none", "self", "other"}
Identities ==
    [authLoading : BOOLEAN, currentUser : {"none", "self"}, userData : Uids,
     gameId : BOOLEAN, authUser : Uids, finalAuthUser : Uids]
SignedIn ==
    [authLoading |-> FALSE, currentUser |-> "self", userData |-> "self",
     gameId |-> TRUE, authUser |-> "self", finalAuthUser |-> "self"]

MatchIdle ==
    /\ status = "none"
    /\ playerIds = {}
    /\ matchHistory = [p \in Players |-> 0]
    /\ gamesPlayed = [p \in Players |-> 0]
    /\ notifications = [u \in Recipients |-> 0]
    /\ coachMatch = "null"
    /\ joinedPlayers = {}
    /\ pc = [p \in Players |-> "idle"]
    /\ joinPc = [p \in Players |-> "none"]
    /\ gameData = [p \in Players |-> NoGameData]
    /\ completedPlayerIds = [p \in Players |-> {}]
    /\ notifyTodo = [p \in Players |-> {}]
    /\ runs = [p \in Players |-> 0]
    /\ statusWrites = [p \in Players |-> 0]
    /\ identity = SignedIn

storeVars == <<status, playerIds, matchHistory, gamesPlayed, notifications>>
coachVars == <<coachMatch, joinedPlayers>>
localVars == <<gameData, completedPlayerIds, notifyTodo>>

(***************************************************************************)
(* Part I: the coach                                                       *)
(***************************************************************************)

\* handleCreateMatch: createGame({status:'waiting', playerIds: []})
HandleCreateMatch ==
    /\ status = "none"
    /\ coachMatch = "null"
    /\ status' = "waiting"
    /\ playerIds' = {}
    /\ coachMatch' = "waiting"
    /\ UNCHANGED <<matchHistory, gamesPlayed, notifications, joinedPlayers,
                   pc, joinPc, localVars, runs, statusWrites>>
    /\ UNCHANGED <<identity, sessionVars, bankVars, settingsVars>>

\* refreshJoinedPlayers (5 s interval and after every snapshot)
RefreshJoinedPlayers ==
    /\ coachMatch # "null"
    /\ joinedPlayers # playerIds
    /\ joinedPlayers' = playerIds
    /\ UNCHANGED <<storeVars, coachMatch, pc, joinPc, localVars, runs,
                   statusWrites>>
    /\ UNCHANGED <<identity, sessionVars, bankVars, settingsVars>>

\* onSnapshot(doc(db,'games',match.id)) : setMatch(updatedMatch);
\* status 'completed' sets showResults, which replaces the page
MatchSnapshot ==
    /\ coachMatch \in {"waiting", "active"}
    /\ coachMatch # status
    /\ coachMatch' = status
    /\ UNCHANGED <<storeVars, joinedPlayers, pc, joinPc, localVars, runs,
                   statusWrites>>
    /\ UNCHANGED <<identity, sessionVars, bankVars, settingsVars>>

\* handleBeginMatch; the button is disabled when joinedPlayers is empty or
\* match.status is 'active', and absent once showResults is set.  The local
\* write is delivered to the component's own snapshot listener at once.
HandleBeginMatch ==
    /\ coachMatch = "waiting"
    /\ joinedPlayers # {}
    /\ UpdateGame("active")
    /\ coachMatch' = "active"
    /\ UNCHANGED <<playerIds, matchHistory, gamesPlayed, notifications,
                   joinedPlayers, pc, joinPc, localVars, runs, statusWrites>>
    /\ UNCHANGED <<identity, sessionVars, bankVars, settingsVars>>

\* handleCancelMatch: updateGame(status:'completed'), setMatch(null)
HandleCancelMatch ==
    /\ coachMatch \in {"waiting", "active"}
    /\ UpdateGame("completed")
    /\ coachMatch' = "null"
    /\ joinedPlayers' = {}
    /\ UNCHANGED <<playerIds, matchHistory, gamesPlayed, notifications,
                   pc, joinPc, localVars, runs, statusWrites>>
    /\ UNCHANGED <<identity, sessionVars, bankVars, settingsVars>>

(***************************************************************************)
(* Part I: a participant joins and opens the match                         *)
(***************************************************************************)

\* joinMatch, up to its read: throws when already joined or not waiting
JoinMatchRead(p) ==
    /\ joinPc[p] = "none"
    /\ pc[p] = "idle"
    /\ status # "none"
    /\ p \notin playerIds
    /\ status = "waiting"
    /\ joinPc' = [joinPc EXCEPT ![p] = "write"]
    /\ UNCHANGED <<storeVars, coachVars, pc, localVars, runs, statusWrites>>
    /\ UNCHANGED <<identity, sessionVars, bankVars, settingsVars>>

\* joinMatch, its write: updateDoc(gameRef, {playerIds: arrayUnion(playerId)})
JoinMatchWrite(p) ==
    /\ joinPc[p] = "write"
    /\ playerIds' = playerIds \cup {p}
    /\ joinPc' = [joinPc EXCEPT ![p] = "none"]
    /\ UNCHANGED <<status, matchHistory, gamesPlayed, notifications,
                   coachVars, pc, localVars, runs, statusWrites>>
    /\ UNCHANGED <<identity, sessionVars, bankVars, settingsVars>>

\* MatchPlayPage.loadMatch: status must be 'active', the user in playerIds
LoadMatch(p) ==
    /\ pc[p] = "idle"
    /\ runs[p] < MaxRuns
    /\ status = "active"
    /\ p \in playerIds
    /\ pc' = [pc EXCEPT ![p] = "playing"]
    /\ runs' = [runs EXCEPT ![p] = @ + 1]
    /\ UNCHANGED <<storeVars, coachVars, joinPc, localVars, statusWrites>>
    /\ UNCHANGED <<identity, sessionVars, bankVars, settingsVars>>

(***************************************************************************)
(* Part I: endGame of a match session, one store operation per step.       *)
(* ok = FALSE is the operation throwing.                                   *)
(***************************************************************************)

\* endGame's guards, each of which returns
EndGameGuards(id) ==
    /\ ~id.authLoading
    /\ ~(id.currentUser = "none" \/ id.userData = "none" \/ ~id.gameId)
    /\ ~(id.authUser = "none" \/ id.authUser # id.currentUser)
    /\ ~(id.userData # id.currentUser)

\* the checks of matchHistory.playerId (= currentUser.uid) that throw
PlayerIdChecks(id) ==
    /\ ~(id.currentUser = "none")
    /\ ~(id.currentUser # id.authUser)
    /\ ~(id.finalAuthUser = "none" \/ id.finalAuthUser # id.currentUser)

\* endGame reaching createMatchHistory whoever auth.currentUser is
IdentityAcceptedWithoutAuthUser(id) ==
    /\ ~id.authLoading
    /\ ~(id.currentUser = "none" \/ id.userData = "none" \/ ~id.gameId)
    /\ ~(id.userData # id.currentUser)

\* endGame reaches createMatchHistory
IdentityAccepted(id) == EndGameGuards(id) /\ PlayerIdChecks(id)

\* endGame up to createMatchHistory; a guard returns, a throw lands in the
\* outer catch.  The users/ and players/ documents of the participant exist.
EndGameCreateMatchHistory(p, id, ok) ==
    /\ pc[p] = "playing"
    /\ identity' = id
    /\ IF IdentityAccepted(id) /\ ok
       THEN /\ matchHistory' = CreateMatchHistory(matchHistory, p)
            /\ pc' = [pc EXCEPT ![p] = "stats"]
       ELSE /\ pc' = [pc EXCEPT ![p] = "idle"]
            /\ UNCHANGED matchHistory
    /\ UNCHANGED <<status, playerIds, gamesPlayed, notifications, coachVars,
                   joinPc, localVars, runs, statusWrites>>
    /\ UNCHANGED <<sessionVars, bankVars, settingsVars>>

\* getPlayer ... updatePlayerStats; a throw lands in the outer catch, which
\* skips the completion check
EndGameUpdatePlayerStats(p, ok) ==
    /\ pc[p] = "stats"
    /\ IF ok
       THEN /\ gamesPlayed' = [gamesPlayed EXCEPT ![p] = @ + 1]
            /\ pc' = [pc EXCEPT ![p] = "getGame"]
       ELSE /\ pc' = [pc EXCEPT ![p] = "idle"]
            /\ UNCHANGED gamesPlayed
    /\ UNCHANGED <<status, playerIds, matchHistory, notifications, coachVars,
                   joinPc, localVars, runs, statusWrites>>
    /\ UNCHANGED <<identity, sessionVars, bankVars, settingsVars>>

\* const gameData = await getGame(matchGameId)
EndGameGetGame(p, ok) ==
    /\ pc[p] = "getGame"
    /\ IF ok /\ playerIds # {}
       THEN /\ gameData' = [gameData EXCEPT
                              ![p] = [status |-> status, playerIds |-> playerIds]]
            /\ pc' = [pc EXCEPT ![p] = "readHistories"]
       ELSE /\ pc' = [pc EXCEPT ![p] = "fallback"]
            /\ UNCHANGED gameData
    /\ UNCHANGED <<storeVars, coachVars, joinPc, completedPlayerIds,
                   notifyTodo, runs, statusWrites>>
    /\ UNCHANGED <<identity, sessionVars, bankVars, settingsVars>>

\* allPlayersCompleted and the branch that follows it
AfterRosterCheck(p, completed) ==
    IF gameData[p].playerIds \subseteq completed
    THEN IF gameData[p].status # "completed" THEN "updateGame" ELSE "idle"
    ELSE "postCheck"

\* completedPlayerIds = {playerId}; first getMatchHistoriesByGameId
EndGameReadHistories(p, ok) ==
    /\ pc[p] = "readHistories"
    /\ LET all == IF ok THEN GetMatchHistoriesByGameId ELSE {}
           completed == {p} \cup all
       IN /\ completedPlayerIds' = [completedPlayerIds EXCEPT ![p] = completed]
          /\ pc' = [pc EXCEPT ![p] = IF p \in all
                                     THEN AfterRosterCheck(p, completed)
                                     ELSE "retryRead"]
    /\ UNCHANGED <<storeVars, coachVars, joinPc, gameData, notifyTodo, runs,
                   statusWrites>>
    /\ UNCHANGED <<identity, sessionVars, bankVars, settingsVars>>

\* own entry not seen: wait 1 s, read once more, go on whatever comes back
EndGameRetryRead(p, ok) ==
    /\ pc[p] = "retryRead"
    /\ LET all == IF ok THEN GetMatchHistoriesByGameId ELSE {}
           completed == completedPlayerIds[p] \cup all
       IN /\ completedPlayerIds' = [completedPlayerIds EXCEPT ![p] = completed]
          /\ pc' = [pc EXCEPT ![p] = AfterRosterCheck(p, completed)]
    /\ UNCHANGED <<storeVars, coachVars, joinPc, gameData, notifyTodo, runs,
                   statusWrites>>
    /\ UNCHANGED <<identity, sessionVars, bankVars, settingsVars>>

\* await updateGame(matchGameId, {status:'completed', endedAt})
EndGameUpdateGame(p, ok) ==
    /\ pc[p] = "updateGame"
    /\ IF ok
       THEN /\ UpdateGame("completed")
            /\ statusWrites' = [statusWrites EXCEPT ![p] = @ + 1]
            /\ pc' = [pc EXCEPT ![p] = "notifyCoach"]
       ELSE /\ pc' = [pc EXCEPT ![p] = "fallback"]
            /\ UNCHANGED <<status, statusWrites>>
    /\ UNCHANGED <<playerIds, matchHistory, gamesPlayed, notifications,
                   coachVars, joinPc, localVars, runs>>
    /\ UNCHANGED <<identity, sessionVars, bankVars, settingsVars>>

\* getTeam + createNotification for the coach, both inside try/catch
EndGameNotifyCoach(p, ok) ==
    /\ pc[p] = "notifyCoach"
    /\ notifications' = IF ok THEN CreateNotification(notifications, Coach)
                              ELSE notifications
    /\ notifyTodo' = [notifyTodo EXCEPT ![p] = gameData[p].playerIds]
    /\ pc' = [pc EXCEPT ![p] = "notifyPlayers"]
    /\ UNCHANGED <<status, playerIds, matchHistory, gamesPlayed, coachVars,
                   joinPc, gameData, completedPlayerIds, runs, statusWrites>>
    /\ UNCHANGED <<identity, sessionVars, bankVars, settingsVars>>

\* one turn of `for (const pId of gameData.playerIds)`, then navigate
EndGameNotifyPlayer(p, q, ok) ==
    /\ pc[p] = "notifyPlayers"
    /\ q \in notifyTodo[p]
    /\ notifications' = IF ok THEN CreateNotification(notifications, q)
                              ELSE notifications
    /\ notifyTodo' = [notifyTodo EXCEPT ![p] = @ \ {q}]
    /\ pc' = [pc EXCEPT ![p] = IF notifyTodo[p] = {q} THEN "idle"
                                                      ELSE "notifyPlayers"]
    /\ UNCHANGED <<status, playerIds, matchHistory, gamesPlayed, coachVars,
                   joinPc, gameData, completedPlayerIds, runs, statusWrites>>
    /\ UNCHANGED <<identity, sessionVars, bankVars, settingsVars>>

\* catch (error): getGame again; a one-player roster is completed here
EndGameFallbackGetGame(p, ok) ==
    /\ pc[p] = "fallback"
    /\ pc' = [pc EXCEPT ![p] = IF ok /\ playerIds = {p} THEN "fallbackUpdateGame"
                                                       ELSE "postCheck"]
    /\ UNCHANGED <<storeVars, coachVars, joinPc, localVars, runs, statusWrites>>
    /\ UNCHANGED <<identity, sessionVars, bankVars, settingsVars>>

EndGameFallbackUpdateGame(p, ok) ==
    /\ pc[p] = "fallbackUpdateGame"
    /\ IF ok
       THEN /\ UpdateGame("completed")
            /\ statusWrites' = [statusWrites EXCEPT ![p] = @ + 1]
            /\ pc' = [pc EXCEPT ![p] = "fallbackNotifyCoach"]
       ELSE /\ pc' = [pc EXCEPT ![p] = "postCheck"]
            /\ UNCHANGED <<status, statusWrites>>
    /\ UNCHANGED <<playerIds, matchHistory, gamesPlayed, notifications,
                   coachVars, joinPc, localVars, runs>>
    /\ UNCHANGED <<identity, sessionVars, bankVars, settingsVars>>

EndGameFallbackNotifyCoach(p, ok) ==
    /\ pc[p] = "fallbackNotifyCoach"
    /\ IF ok
       THEN /\ notifications' = CreateNotification(notifications, Coach)
            /\ pc' = [pc EXCEPT ![p] = "fallbackNotifyPlayer"]
       ELSE /\ pc' = [pc EXCEPT ![p] = "postCheck"]
            /\ UNCHANGED notifications
    /\ UNCHANGED <<status, playerIds, matchHistory, gamesPlayed, coachVars,
                   joinPc, localVars, runs, statusWrites>>
    /\ UNCHANGED <<identity, sessionVars, bankVars, settingsVars>>

EndGameFallbackNotifyPlayer(p, ok) ==
    /\ pc[p] = "fallbackNotifyPlayer"
    /\ IF ok
       THEN /\ notifications' = CreateNotification(notifications, p)
            /\ pc' = [pc EXCEPT ![p] = "idle"]
       ELSE /\ pc' = [pc EXCEPT ![p] = "postCheck"]
            /\ UNCHANGED notifications
    /\ UNCHANGED <<status, playerIds, matchHistory, gamesPlayed, coachVars,
                   joinPc, localVars, runs, statusWrites>>
    /\ UNCHANGED <<identity, sessionVars, bankVars, settingsVars>>

\* setTimeout(2000): getGame, navigate to the results when completed
EndGamePostCheck(p) ==
    /\ pc[p] = "postCheck"
    /\ pc' = [pc EXCEPT ![p] = "idle"]
    /\ UNCHANGED <<storeVars, coachVars, joinPc, localVars, runs, statusWrites>>
    /\ UNCHANGED <<identity, sessionVars, bankVars, settingsVars>>

NextMatch ==
    \/ HandleCreateMatch
    \/ RefreshJoinedPlayers
    \/ MatchSnapshot
    \/ HandleBeginMatch
    \/ HandleCancelMatch
    \/ \E p \in Players : JoinMatchRead(p)
    \/ \E p \in Players : JoinMatchWrite(p)
    \/ \E p \in Players : LoadMatch(p)
    \/ \E p \in Players, ok \in BOOLEAN :
           EndGameCreateMatchHistory(p, SignedIn, ok)
    \/ \E p \in Players, ok \in BOOLEAN : EndGameUpdatePlayerStats(p, ok)
    \/ \E p \in Players, ok \in BOOLEAN : EndGameGetGame(p, ok)
    \/ \E p \in Players, ok \in BOOLEAN : EndGameReadHistories(p, ok)
    \/ \E p \in Players, ok \in BOOLEAN : EndGameRetryRead(p, ok)
    \/ \E p \in Players, ok \in BOOLEAN : EndGameUpdateGame(p, ok)
    \/ \E p \in Players, ok \in BOOLEAN : EndGameNotifyCoach(p, ok)
    \/ \E p \in Players, q \in Players, ok \in BOOLEAN : EndGameNotifyPlayer(p, q, ok)
    \/ \E p \in Players, ok \in BOOLEAN : EndGameFallbackGetGame(p, ok)
    \/ \E p \in Players, ok \in BOOLEAN : EndGameFallbackUpdateGame(p, ok)
    \/ \E p \in Players, ok \in BOOLEAN : EndGameFallbackNotifyCoach(p, ok)
    \/ \E p \in Players, ok \in BOOLEAN : EndGameFallbackNotifyPlayer(p, ok)
    \/ \E p \in Players : EndGamePostCheck(p)

\* no other participant is inside endGame
Alone(p) == \A q \in Players \ {p} : pc[q] \in {"idle", "playing"}

\* the match when the participants finish one after another and no store
\* operation throws: a step of endGame is taken only while nobody else is
\* inside endGame
NextSequential ==
    \/ HandleCreateMatch
    \/ RefreshJoinedPlayers
    \/ MatchSnapshot
    \/ HandleBeginMatch
    \/ HandleCancelMatch
    \/ \E p \in Players : JoinMatchRead(p)
    \/ \E p \in Players : JoinMatchWrite(p)
    \/ \E p \in Players : LoadMatch(p)
    \/ \E p \in Players : Alone(p) /\ EndGameCreateMatchHistory(p, SignedIn, TRUE)
    \/ \E p \in Players : Alone(p) /\ EndGameUpdatePlayerStats(p, TRUE)
    \/ \E p \in Players : Alone(p) /\ EndGameGetGame(p, TRUE)
    \/ \E p \in Players : Alone(p) /\ EndGameReadHistories(p, TRUE)
    \/ \E p \in Players : Alone(p) /\ EndGameUpdateGame(p, TRUE)
    \/ \E p \in Players : Alone(p) /\ EndGameNotifyCoach(p, TRUE)
    \/ \E p \in Players, q \in Players :
           Alone(p) /\ EndGameNotifyPlayer(p, q, TRUE)
    \/ \E p \in Players : Alone(p) /\ EndGamePostCheck(p)

\* ... and endGame is called under any identity
NextIdentity ==
    \/ NextSequential
    \/ \E p \in Players, id \in Identities :
           Alone(p) /\ EndGameCreateMatchHistory(p, id, TRUE)

\* endGame going on after createMatchHistory: once called, the async function
\* runs to its end
EndGameProceeds ==
    \/ \E p \in Players : Alone(p) /\ EndGameUpdatePlayerStats(p, TRUE)
    \/ \E p \in Players : Alone(p) /\ EndGameGetGame(p, TRUE)
    \/ \E p \in Players : Alone(p) /\ EndGameReadHistories(p, TRUE)
    \/ \E p \in Players : Alone(p) /\ EndGameUpdateGame(p, TRUE)
    \/ \E p \in Players : Alone(p) /\ EndGameNotifyCoach(p, TRUE)
    \/ \E p \in Players, q \in Players :
           Alone(p) /\ EndGameNotifyPlayer(p, q, TRUE)
    \/ \E p \in Players : Alone(p) /\ EndGamePostCheck(p)

\* ... and the only operation that may throw is updatePlayerStats
NextStatsFailure ==
    \/ NextSequential
    \/ \E p \in Players : Alone(p) /\ EndGameUpdatePlayerStats(p, FALSE)


(***************************************************************************)
(* Part II: one PracticeMode session                                       *)
(*                                                                         *)
(* Time is counted in seconds.  A user event or a timer callback is one    *)
(* step: the handler's state updates are batched into one render, and the  *)
(* effects whose dependencies changed run after it, render after render,   *)
(* until nothing changes.  A timer callback sees the state of the render   *)
(* that armed it (its closure), except through functional updates.         *)
(***************************************************************************)
Null == 0 - 1
Subjects == {"SS", "SC"}
Wpms == {60}

\* setInterval(..., 1000) of the question timer and the hesitation timer
TickSeconds == 1
\* setTimeout(..., 2000) between the hesitation message and the answer
HesitationMessageSeconds == 2
\* setTimeout(..., 3000) nested in it, before advancing
HesitationResultSeconds == 3
\* setTimeout(..., 3000) of handleTimeExpired
TimeExpiredResultSeconds == 3
\* setTimeout(..., 2000) of handleAnswer
AnswerResultSeconds == 2

\* msPerWord = (60 / wpm) * 1000, in seconds
SecondsPerWord == 60 \div gameSettings.wpm

NoCount == [s \in Subjects |-> 0]

\* the component's state as one value
UI ==
    [currentQuestionIndex |-> currentQuestionIndex,
     playerScore |-> playerScore,
     timer |-> timer,
     revealedWordsCount |-> revealedWordsCount,
     isQuestionLive |-> isQuestionLive,
     showResult |-> showResult,
     questionStartTime |-> questionStartTime,
     questionFullyRevealed |-> questionFullyRevealed,
     buzzTimes |-> buzzTimes,
     correctBySubject |-> correctBySubject,
     totalBySubject |-> totalBySubject,
     hasBuzzed |-> hasBuzzed,
     showHesitation |-> showHesitation,
     hesitationTimer |-> hesitationTimer,
     hesitationComplete |-> hesitationComplete,
     timers |-> timers,
     mounted |-> mounted,
     resultEntries |-> resultEntries,
     outcomes |-> outcomes,
     buzzAttempts |-> buzzAttempts,
     buzzAccepted |-> buzzAccepted]

Commit(s) ==
    /\ currentQuestionIndex' = s.currentQuestionIndex
    /\ playerScore' = s.playerScore
    /\ timer' = s.timer
    /\ revealedWordsCount' = s.revealedWordsCount
    /\ isQuestionLive' = s.isQuestionLive
    /\ showResult' = s.showResult
    /\ questionStartTime' = s.questionStartTime
    /\ questionFullyRevealed' = s.questionFullyRevealed
    /\ buzzTimes' = s.buzzTimes
    /\ correctBySubject' = s.correctBySubject
    /\ totalBySubject' = s.totalBySubject
    /\ hasBuzzed' = s.hasBuzzed
    /\ showHesitation' = s.showHesitation
    /\ hesitationTimer' = s.hesitationTimer
    /\ hesitationComplete' = s.hesitationComplete
    /\ timers' = s.timers
    /\ mounted' = s.mounted
    /\ resultEntries' = s.resultEntries
    /\ outcomes' = s.outcomes
    /\ buzzAttempts' = s.buzzAttempts
    /\ buzzAccepted' = s.buzzAccepted
    /\ UNCHANGED <<questions, gameSettings>>
    /\ UNCHANGED <<matchVars, bankVars, settingsVars>>

\* what a callback created during render s closes over
Closure(s) ==
    [currentQuestionIndex |-> s.currentQuestionIndex,
     playerScore |-> s.playerScore,
     correctBySubject |-> s.correctBySubject,
     totalBySubject |-> s.totalBySubject,
     buzzTimes |-> s.buzzTimes]

NewTimer(kind, seconds, c) == [kind |-> kind, rem |-> seconds, c |-> c]

\* clearInterval / clearTimeout of the timers of one kind
Clear(ts, kind) == SelectSeq(ts, LAMBDA x : x.kind # kind)

HasQuestion(i) == i >= 0 /\ i < Len(questions)
QuestionAt(i) == questions[i + 1]

\* startQuestion, called in a render whose index is c.currentQuestionIndex
StartQuestion(c, a) ==
    IF ~HasQuestion(c.currentQuestionIndex) THEN a
    ELSE IF ~QuestionAt(c.currentQuestionIndex).answerData THEN a
    ELSE [a EXCEPT !.questionFullyRevealed = FALSE,
                   !.revealedWordsCount = 0,
                   !.isQuestionLive = TRUE,
                   !.hasBuzzed = FALSE,
                   !.showHesitation = FALSE,
                   !.hesitationTimer = Null,
                   !.hesitationComplete = FALSE,
                   !.showResult = FALSE,
                   !.timer = gameSettings.questionTime,
                   !.questionStartTime = 0,
                   !.buzzAttempts = 0,
                   !.buzzAccepted = 0]

\* endGame(finalScore), called from a callback closed over c: the record
\* handed to createMatchHistory
MatchHistoryRecord(c, finalScore) ==
    [score |-> finalScore,
     total |-> Len(questions),
     correctBySubject |-> c.correctBySubject,
     totalBySubject |-> c.totalBySubject]

EndGame(c, finalScore, a) ==
    [a EXCEPT !.resultEntries = Append(@, MatchHistoryRecord(c, finalScore))]

\* handleTimeExpired moving on at once, without showing a result
HandleTimeExpiredWithoutResult(c, a) ==
    [a EXCEPT !.timers = Append(@, NewTimer("timeExpiredAdvance", 0, c))]

\* handleTimeExpired, called from the question timer effect of render c
HandleTimeExpired(c, a) ==
    [a EXCEPT !.showResult = TRUE,
              !.outcomes[c.currentQuestionIndex] = Append(@, "timeout"),
              !.timers = Append(@, NewTimer("timeExpiredAdvance",
                                            TimeExpiredResultSeconds, c))]

(* ---- the effects, in the order the component declares them; o is the   *)
(* ---- previous render, n the render just committed, a what the effects  *)
(* ---- of this pass have queued so far                                   *)

\* useEffect [gameSettings.questionTime, questionStartTime]
TimerResetEffect(o, n, a) ==
    IF (o.questionStartTime = Null) # (n.questionStartTime = Null)
       /\ n.questionStartTime = Null
    THEN [a EXCEPT !.timer = gameSettings.questionTime]
    ELSE a

\* useEffect [questions, gameId, currentQuestionIndex, questionStartTime, loading]
StartQuestionEffect(o, n, a) ==
    IF /\ \/ o.currentQuestionIndex # n.currentQuestionIndex
          \/ (o.questionStartTime = Null) # (n.questionStartTime = Null)
       /\ n.questionStartTime = Null
       /\ n.currentQuestionIndex < Len(questions)
    THEN StartQuestion(Closure(n), a)
    ELSE a

\* useEffect [currentQuestionIndex, questions, wpm, hasBuzzed]: the reveal
RevealEffect(o, n, a) ==
    IF o.currentQuestionIndex # n.currentQuestionIndex \/ o.hasBuzzed # n.hasBuzzed
    THEN LET cleaned == [a EXCEPT !.timers = Clear(@, "reveal")]
         IN IF HasQuestion(n.currentQuestionIndex) /\ ~n.hasBuzzed
            THEN [cleaned EXCEPT !.timers =
                     Append(@, NewTimer("reveal", SecondsPerWord, Closure(n)))]
            ELSE cleaned
    ELSE a

ShouldRunTimer(n) == n.questionFullyRevealed /\ n.timer > 0 /\ ~n.hasBuzzed

\* useEffect [timer, questionFullyRevealed, hasBuzzed]: the question timer
QuestionTimerEffect(o, n, a) ==
    IF \/ o.timer # n.timer
       \/ o.questionFullyRevealed # n.questionFullyRevealed
       \/ o.hasBuzzed # n.hasBuzzed
    THEN LET cleaned == [a EXCEPT !.timers = Clear(@, "questionTimer")]
         IN IF ShouldRunTimer(n)
            THEN [cleaned EXCEPT !.timers =
                     Append(@, NewTimer("questionTimer", TickSeconds, Closure(n)))]
            ELSE IF n.timer = 0 /\ n.questionFullyRevealed /\ ~n.hasBuzzed
                 THEN HandleTimeExpired(Closure(n), cleaned)
                 ELSE cleaned
    ELSE a

HesitationDepsChanged(o, n) ==
    \/ o.hesitationTimer # n.hesitationTimer
    \/ o.showResult # n.showResult
    \/ o.hesitationComplete # n.hesitationComplete

\* useEffect [hasBuzzed, hesitationTimer, hesitationComplete, showResult, ...]
HesitationStartEffect(o, n, a) ==
    IF /\ HesitationDepsChanged(o, n) \/ o.hasBuzzed # n.hasBuzzed
       /\ n.hasBuzzed /\ n.hesitationTimer = Null
       /\ ~n.hesitationComplete /\ ~n.showResult
    THEN [a EXCEPT !.hesitationTimer = gameSettings.hesitationTime]
    ELSE a

HesitationRunning(n) ==
    ~(n.showResult \/ n.hesitationComplete
      \/ n.hesitationTimer = Null \/ n.hesitationTimer <= 0)

\* useEffect [hesitationTimer, showResult, hesitationComplete]: the countdown
HesitationCountdownEffect(o, n, a) ==
    IF HesitationDepsChanged(o, n)
    THEN LET cleaned == [a EXCEPT !.timers = Clear(@, "hesitationTimer")]
         IN IF HesitationRunning(n)
            THEN [cleaned EXCEPT !.timers =
                     Append(@, NewTimer("hesitationTimer", TickSeconds, Closure(n)))]
            ELSE cleaned
    ELSE a

\* useEffect [hesitationTimer, showResult, hesitationComplete, showHesitation, hasBuzzed]
HesitationMessageEffect(o, n, a) ==
    IF /\ \/ HesitationDepsChanged(o, n)
          \/ o.showHesitation # n.showHesitation
          \/ o.hasBuzzed # n.hasBuzzed
       /\ ~(n.showResult \/ n.hesitationComplete \/ ~n.hasBuzzed)
       /\ n.hesitationTimer = 0 /\ ~n.showHesitation
    THEN [a EXCEPT !.showHesitation = TRUE]
    ELSE a

\* useEffect [showHesitation, hasBuzzed]: arms the hesitation resolution
HesitationResolveEffect(o, n, a) ==
    IF o.showHesitation # n.showHesitation \/ o.hasBuzzed # n.hasBuzzed
    THEN LET cleaned == [a EXCEPT !.timers = Clear(@, "hesitationResolve")]
         IN IF ~(~n.showHesitation \/ n.hesitationComplete
                 \/ n.showResult \/ ~n.hasBuzzed)
            THEN [cleaned EXCEPT !.timers =
                     Append(@, NewTimer("hesitationResolve",
                                        HesitationMessageSeconds, Closure(n)))]
            ELSE cleaned
    ELSE a

EffectsPass(o, n) ==
    LET a1 == TimerResetEffect(o, n, n)
        a2 == StartQuestionEffect(o, n, a1)
        a3 == RevealEffect(o, n, a2)
        a4 == QuestionTimerEffect(o, n, a3)
        a5 == HesitationStartEffect(o, n, a4)
        a6 == HesitationCountdownEffect(o, n, a5)
        a7 == HesitationMessageEffect(o, n, a6)
    IN HesitationResolveEffect(o, n, a7)

\* the part of the state a render shows; the rest lives outside React
Rendered(s) == [s EXCEPT !.timers = <<>>, !.outcomes = <<>>,
                         !.resultEntries = <<>>]

RECURSIVE RunEffects(_, _)
RunEffects(o, n) ==
    LET a == EffectsPass(o, n)
    IN IF Rendered(a) = Rendered(n) THEN a ELSE RunEffects(n, a)

\* a step's outcome: once unmounted, state updates are dropped and only
\* what the callback did outside React (timers, endGame) remains
Settle(o, n) ==
    IF o.mounted THEN RunEffects(o, n)
    ELSE [o EXCEPT !.timers = n.timers, !.resultEntries = n.resultEntries]

(***************************************************************************)
(* Part II: construction                                                   *)
(***************************************************************************)
\* answerData: the question has a correctAnswer and at least one distractor
QuestionChoices ==
    [subjectArea : Subjects, words : 1..MaxWords, answerData : {TRUE}]
QuestionLists ==
    UNION {[1..n -> QuestionChoices] : n \in 1..MaxQuestions}
\* ... and the questions whose answer data is missing
AnyQuestionChoices ==
    [subjectArea : Subjects, words : 1..MaxWords, answerData : BOOLEAN]
AnyQuestionLists ==
    UNION {[1..n -> AnyQuestionChoices] : n \in 1..MaxQuestions}
SettingsChoices ==
    [questionTime : 1..MaxQuestionTime,
     hesitationTime : 1..MaxHesitationTime,
     wpm : Wpms]

\* the useState initial values
InitialState ==
    [currentQuestionIndex |-> 0,
     playerScore |-> 0,
     timer |-> gameSettings.questionTime,
     revealedWordsCount |-> 0,
     isQuestionLive |-> FALSE,
     showResult |-> FALSE,
     questionStartTime |-> Null,
     questionFullyRevealed |-> FALSE,
     buzzTimes |-> <<>>,
     correctBySubject |-> NoCount,
     totalBySubject |-> NoCount,
     hasBuzzed |-> FALSE,
     showHesitation |-> FALSE,
     hesitationTimer |-> Null,
     hesitationComplete |-> FALSE,
     timers |-> <<>>,
     mounted |-> TRUE,
     resultEntries |-> <<>>,
     outcomes |-> [i \in 0..(Len(questions) - 1) |-> <<>>],
     buzzAttempts |-> 0,
     buzzAccepted |-> 0]

\* the first render and its effects: the questions are loaded, the first
\* question is started
Mounted ==
    RunEffects([InitialState EXCEPT !.currentQuestionIndex = Null], InitialState)

SetState(s) ==
    /\ currentQuestionIndex = s.currentQuestionIndex
    /\ playerScore = s.playerScore
    /\ timer = s.timer
    /\ revealedWordsCount = s.revealedWordsCount
    /\ isQuestionLive = s.isQuestionLive
    /\ showResult = s.showResult
    /\ questionStartTime = s.questionStartTime
    /\ questionFullyRevealed = s.questionFullyRevealed
    /\ buzzTimes = s.buzzTimes
    /\ correctBySubject = s.correctBySubject
    /\ totalBySubject = s.totalBySubject
    /\ hasBuzzed = s.hasBuzzed
    /\ showHesitation = s.showHesitation
    /\ hesitationTimer = s.hesitationTimer
    /\ hesitationComplete = s.hesitationComplete
    /\ timers = s.timers
    /\ mounted = s.mounted
    /\ resultEntries = s.resultEntries
    /\ outcomes = s.outcomes
    /\ buzzAttempts = s.buzzAttempts
    /\ buzzAccepted = s.buzzAccepted

InitSession ==
    /\ questions \in QuestionLists
    /\ gameSettings \in SettingsChoices
    /\ SetState(Mounted)

\* a session over any question list
InitAnySession ==
    /\ questions \in AnyQuestionLists
    /\ gameSettings \in SettingsChoices
    /\ SetState(Mounted)

\* no session: the state Part I keeps Part II in
NoSession ==
    /\ questions = <<>>
    /\ gameSettings = [questionTime |-> 1, hesitationTime |-> 1, wpm |-> 60]
    /\ SetState([InitialState EXCEPT !.mounted = FALSE])

(***************************************************************************)
(* Part II: the clock and the timer callbacks                              *)
(***************************************************************************)
Due(kind) ==
    /\ \E i \in 1..Len(timers) : timers[i].rem = 0
    /\ LET i == CHOOSE j \in 1..Len(timers) :
                   /\ timers[j].rem = 0
                   /\ \A k \in 1..(j - 1) : timers[k].rem # 0
       IN timers[i].kind = kind

DueIndex ==
    CHOOSE j \in 1..Len(timers) :
        /\ timers[j].rem = 0
        /\ \A k \in 1..(j - 1) : timers[k].rem # 0

Without(ts, i) == SubSeq(ts, 1, i - 1) \o SubSeq(ts, i + 1, Len(ts))

\* one second passes: nothing is due, something is pending
Tick ==
    /\ timers # <<>>
    /\ \A i \in 1..Len(timers) : timers[i].rem > 0
    /\ timers' = [i \in 1..Len(timers) |-> [timers[i] EXCEPT !.rem = @ - 1]]
    /\ questionStartTime' = IF questionStartTime = Null THEN Null
                            ELSE questionStartTime + 1
    /\ UNCHANGED <<questions, gameSettings, currentQuestionIndex, playerScore,
                   timer, revealedWordsCount, isQuestionLive, showResult,
                   questionFullyRevealed, buzzTimes, correctBySubject,
                   totalBySubject, hasBuzzed, showHesitation, hesitationTimer,
                   hesitationComplete, mounted, resultEntries, outcomes,
                   buzzAttempts, buzzAccepted>>
    /\ UNCHANGED <<matchVars, bankVars, settingsVars>>

\* the setInterval callback of the reveal effect
RevealTick ==
    /\ Due("reveal")
    /\ LET s == UI
           t == timers[DueIndex]
           rest == Without(timers, DueIndex)
           totalWords == QuestionAt(t.c.currentQuestionIndex).words
           n == IF s.revealedWordsCount < totalWords
                THEN [s EXCEPT
                        !.revealedWordsCount = @ + 1,
                        !.questionFullyRevealed =
                            IF s.revealedWordsCount + 1 = totalWords THEN TRUE ELSE @,
                        !.timers = Append(rest, [t EXCEPT !.rem = SecondsPerWord])]
                ELSE [s EXCEPT !.timers = rest]
       IN Commit(Settle(s, n))

\* setTimer((t) => t - 1)
QuestionTimerTick ==
    /\ Due("questionTimer")
    /\ LET s == UI
           t == timers[DueIndex]
           rest == Without(timers, DueIndex)
           n == [s EXCEPT !.timer = @ - 1,
                          !.timers = Append(rest, [t EXCEPT !.rem = TickSeconds])]
       IN Commit(Settle(s, n))

\* setHesitationTimer((prev) => prev === null || prev <= 0 ? 0 : prev - 1)
HesitationTimerTick ==
    /\ Due("hesitationTimer")
    /\ LET s == UI
           t == timers[DueIndex]
           rest == Without(timers, DueIndex)
           n == [s EXCEPT !.hesitationTimer = IF @ = Null \/ @ <= 0 THEN 0 ELSE @ - 1,
                          !.timers = Append(rest, [t EXCEPT !.rem = TickSeconds])]
       IN Commit(Settle(s, n))

\* the 2 s timeout of the hesitation resolution effect
HesitationResolve ==
    /\ Due("hesitationResolve")
    /\ LET s == UI
           t == timers[DueIndex]
           rest == Without(timers, DueIndex)
           i == t.c.currentQuestionIndex
           n == [s EXCEPT
                   !.showHesitation = FALSE,
                   !.hesitationComplete = TRUE,
                   !.showResult = TRUE,
                   !.totalBySubject =
                       IF HasQuestion(i)
                       THEN [@ EXCEPT ![QuestionAt(i).subjectArea] = @ + 1]
                       ELSE @,
                   !.outcomes[i] = Append(@, "hesitation-expired"),
                   !.timers = Append(rest, NewTimer("hesitationAdvance",
                                                    HesitationResultSeconds, t.c))]
       IN Commit(Settle(s, n))

\* the 3 s timeout nested in it
HesitationAdvance ==
    /\ Due("hesitationAdvance")
    /\ LET s == UI
           t == timers[DueIndex]
           rest == Without(timers, DueIndex)
           nextIndex == t.c.currentQuestionIndex + 1
           shown == [s EXCEPT !.showResult = FALSE, !.timers = rest]
           n == IF nextIndex >= Len(questions)
                THEN EndGame(t.c, t.c.playerScore, shown)
                ELSE [shown EXCEPT !.currentQuestionIndex = nextIndex,
                                   !.questionStartTime = Null,
                                   !.hasBuzzed = FALSE,
                                   !.showHesitation = FALSE,
                                   !.hesitationTimer = Null,
                                   !.hesitationComplete = FALSE]
       IN Commit(Settle(s, n))

\* the 3 s timeout of handleTimeExpired
TimeExpiredAdvance ==
    /\ Due("timeExpiredAdvance")
    /\ LET s == UI
           t == timers[DueIndex]
           rest == Without(timers, DueIndex)
           nextIndex == t.c.currentQuestionIndex + 1
           shown == [s EXCEPT !.showResult = FALSE, !.timers = rest]
           n == IF nextIndex >= Len(questions)
                THEN EndGame(t.c, t.c.playerScore, shown)
                ELSE StartQuestion(t.c, [shown EXCEPT !.currentQuestionIndex = nextIndex])
       IN Commit(Settle(s, n))

\* the 2 s timeout of handleAnswer; t.c.playerScore holds updatedScore
AnswerAdvance ==
    /\ Due("answerAdvance")
    /\ LET s == UI
           t == timers[DueIndex]
           rest == Without(timers, DueIndex)
           nextIndex == t.c.currentQuestionIndex + 1
           popped == [s EXCEPT !.timers = rest]
           n == IF nextIndex >= Len(questions)
                THEN EndGame(t.c, t.c.playerScore, popped)
                ELSE StartQuestion(t.c, [popped EXCEPT !.currentQuestionIndex = nextIndex])
       IN Commit(Settle(s, n))

(***************************************************************************)
(* Part II: the participant                                                *)
(***************************************************************************)
\* handleBuzz without its hasBuzzed test
BuzzAcceptedWhileBuzzed(s) == ~(s.questionStartTime = Null)

\* the guard of handleBuzz
BuzzAccepted(s) == ~(s.hasBuzzed \/ s.questionStartTime = Null)

\* handleBuzz, called on any press that reaches it
HandleBuzz ==
    /\ mounted
    /\ buzzAttempts < MaxBuzzAttempts
    /\ LET s == [UI EXCEPT !.buzzAttempts = @ + 1]
           n == IF BuzzAccepted(s)
                THEN [s EXCEPT
                        !.timers = Clear(@, "reveal"),
                        !.buzzTimes = Append(@, [q |-> s.currentQuestionIndex,
                                                 t |-> s.questionStartTime]),
                        !.hasBuzzed = TRUE,
                        !.questionFullyRevealed = TRUE,
                        !.hesitationComplete = FALSE,
                        !.showHesitation = FALSE,
                        !.buzzAccepted = @ + 1]
                ELSE s
       IN Commit(Settle(UI, n))

\* the guard of handleAnswer, which is also what disables the answer buttons
AnswerAccepted(s) == ~(s.showResult \/ s.hesitationComplete)

\* handleAnswer(answer); the answer buttons exist once hasBuzzed is set
HandleAnswer(isCorrect) ==
    /\ mounted
    /\ hasBuzzed
    /\ HasQuestion(currentQuestionIndex)
    /\ AnswerAccepted(UI)
    /\ LET s == UI
           subject == QuestionAt(s.currentQuestionIndex).subjectArea
           updatedScore == IF isCorrect THEN s.playerScore + 1 ELSE s.playerScore
           c == [Closure(s) EXCEPT !.playerScore = updatedScore]
           n == [s EXCEPT
                   !.showResult = TRUE,
                   !.totalBySubject[subject] = @ + 1,
                   !.playerScore = IF isCorrect THEN @ + 1 ELSE @,
                   !.correctBySubject[subject] = IF isCorrect THEN @ + 1 ELSE @,
                   !.outcomes[s.currentQuestionIndex] =
                       Append(@, IF isCorrect THEN "correct" ELSE "incorrect"),
                   !.timers = Append(@, NewTimer("answerAdvance",
                                                 AnswerResultSeconds, c))]
       IN Commit(Settle(s, n))

EffectTimers == {"reveal", "questionTimer", "hesitationTimer", "hesitationResolve"}

\* endGame's onBack()/navigate(): the component unmounts, its effects clean
\* up; timeouts armed by handlers are not cleared
Unmount ==
    /\ mounted
    /\ resultEntries # <<>>
    /\ mounted' = FALSE
    /\ timers' = SelectSeq(timers, LAMBDA x : x.kind \notin EffectTimers)
    /\ UNCHANGED <<questions, gameSettings, currentQuestionIndex, playerScore,
                   timer, revealedWordsCount, isQuestionLive, showResult,
                   questionStartTime, questionFullyRevealed, buzzTimes,
                   correctBySubject, totalBySubject, hasBuzzed, showHesitation,
                   hesitationTimer, hesitationComplete, resultEntries, outcomes,
                   buzzAttempts, buzzAccepted>>
    /\ UNCHANGED <<matchVars, bankVars, settingsVars>>

\* the session left to its timers: no buzz, no answer, the page stays open
NextNoInput ==
    \/ Tick
    \/ RevealTick
    \/ QuestionTimerTick
    \/ TimeExpiredAdvance

NextSession ==
    \/ Tick
    \/ RevealTick
    \/ QuestionTimerTick
    \/ HesitationTimerTick
    \/ HesitationResolve
    \/ HesitationAdvance
    \/ TimeExpiredAdvance
    \/ AnswerAdvance
    \/ HandleBuzz
    \/ \E isCorrect \in BOOLEAN : HandleAnswer(isCorrect)
    \/ Unmount


(***************************************************************************)
(* Part III: the question bank, the questions of a match, the settings     *)
(***************************************************************************)
MaxBankQuestions == 2
QuestionIds == 1..MaxBankQuestions

\* the distractor columns of a CSV row, the distractor fields of the form
DistractorColumns == 3

\* a text field or CSV cell: empty, blank, text
FieldValues == {"", " ", "d"}
DistractorInputs == [1..DistractorColumns -> FieldValues]

NoDoc == [exists |-> FALSE]
Doc(data) == [exists |-> TRUE, data |-> data]

\* String.prototype.trim
Trim(v) == IF v = " " THEN "" ELSE v

\* parseCSVQuestions: the non-empty trimmed cells of columns 7..9
ParsedDistractors(values) ==
    SelectSeq([j \in 1..Len(values) |-> Trim(values[j])], LAMBDA d : d # "")

\* parseCSVQuestions: `if (distractors.length === 0) { errors.push; continue }`
CsvRowAccepted(values) == ~(Len(ParsedDistractors(values)) = 0)

\* the question manager's import: parseCSVLine trims each cell, then
\* distractors.filter(d => d).length >= 1
ManagerRowAccepted(values) == Len(ParsedDistractors(values)) >= 1

\* QuestionForm: every distractor input is `required`
FormAccepted(fields) == \A j \in 1..Len(fields) : fields[j] # ""

CountGiven(values) == Len(SelectSeq(values, LAMBDA d : Trim(d) # ""))

\* createQuestion: setDoc on a fresh document reference
CreateQuestion(distractors) ==
    /\ nextQuestionId <= MaxBankQuestions
    /\ questionDocs' = [questionDocs EXCEPT ![nextQuestionId] = Doc(distractors)]
    /\ nextQuestionId' = nextQuestionId + 1

\* the row is skipped, the form is not submitted
Rejected == UNCHANGED <<questionDocs, nextQuestionId>>

\* one row of a CSV import, then createQuestion: the coach dashboard parses
\* with parseCSVQuestions, the question manager with its own handleFileUpload
Importers == {"CoachDashboard", "QuestionManager"}

ImportCsvRow(importer, values) ==
    /\ IF (IF importer = "CoachDashboard"
           THEN CsvRowAccepted(values)
           ELSE ManagerRowAccepted(values))
       THEN CreateQuestion(ParsedDistractors(values))
       ELSE Rejected
    /\ UNCHANGED <<matchQuestionIds, matchPage>>
    /\ UNCHANGED <<matchVars, sessionVars, settingsVars>>

\* QuestionForm submitted for a new question: handleSave -> createQuestion
HandleSaveCreate(fields) ==
    /\ IF FormAccepted(fields)
       THEN CreateQuestion(fields)
       ELSE Rejected
    /\ UNCHANGED <<matchQuestionIds, matchPage>>
    /\ UNCHANGED <<matchVars, sessionVars, settingsVars>>

\* QuestionForm submitted for an existing question: the form has one input
\* per distractor the question has; handleSave -> updateQuestion
HandleSaveUpdate(id, fields) ==
    /\ questionDocs[id].exists
    /\ Len(fields) = Len(questionDocs[id].data)
    /\ IF FormAccepted(fields)
       THEN /\ questionDocs' = [questionDocs EXCEPT ![id] = Doc(fields)]
            /\ UNCHANGED nextQuestionId
       ELSE Rejected
    /\ UNCHANGED <<matchQuestionIds, matchPage>>
    /\ UNCHANGED <<matchVars, sessionVars, settingsVars>>

\* deleteQuestion
DeleteQuestion(id) ==
    /\ questionDocs[id].exists
    /\ questionDocs' = [questionDocs EXCEPT ![id] = NoDoc]
    /\ UNCHANGED <<nextQuestionId, matchQuestionIds, matchPage>>
    /\ UNCHANGED <<matchVars, sessionVars, settingsVars>>

\* the selections handleCreateMatch can send: questions of the bank, at
\* least one
SelectionLists == UNION {[1..n -> QuestionIds] : n \in 1..MaxBankQuestions}
QuestionSelections ==
    {s \in SelectionLists :
        /\ \A i \in 1..Len(s) : questionDocs[s[i]].exists
        /\ \A i, j \in 1..Len(s) : i # j => s[i] # s[j]}

\* handleCreateMatch: createGame({questionIds: selectedQuestions, ...})
SelectMatchQuestions(selectedQuestions) ==
    /\ selectedQuestions \in QuestionSelections
    /\ matchQuestionIds' = selectedQuestions
    /\ UNCHANGED <<questionDocs, nextQuestionId, matchPage>>
    /\ UNCHANGED <<matchVars, sessionVars, settingsVars>>

\* getQuestionsByIds: a missing document and a failed read are both skipped
GetQuestionsByIds(questionIds, failing) ==
    LET found == SelectSeq(questionIds,
                           LAMBDA id : id \notin failing /\ questionDocs[id].exists)
    IN [i \in 1..Len(found) |->
           [id |-> found[i], distractors |-> questionDocs[found[i]].data]]

\* MatchPlayPage.loadMatch, its question loading; `failing` are the ids
\* whose getDoc throws
LoadMatchQuestions(failing) ==
    /\ matchPage' =
         IF Len(matchQuestionIds) > 0
         THEN LET matchQuestions == GetQuestionsByIds(matchQuestionIds, failing)
              IN IF Len(matchQuestions) = 0
                 THEN [error |-> "No questions found for this match",
                       questionIds |-> matchQuestionIds, questions |-> <<>>]
                 ELSE [error |-> "", questionIds |-> matchQuestionIds,
                       questions |-> matchQuestions]
         ELSE [error |-> "Match has no questions",
               questionIds |-> matchQuestionIds, questions |-> <<>>]
    /\ UNCHANGED <<questionDocs, nextQuestionId, matchQuestionIds>>
    /\ UNCHANGED <<matchVars, sessionVars, settingsVars>>

InitBank ==
    /\ questionDocs = [id \in QuestionIds |-> NoDoc]
    /\ nextQuestionId = 1
    /\ matchQuestionIds = <<>>
    /\ matchPage = [error |-> "not loaded", questionIds |-> <<>>, questions |-> <<>>]

NextBank ==
    \/ \E importer \in Importers :
           \E values \in DistractorInputs : ImportCsvRow(importer, values)
    \/ \E fields \in DistractorInputs : HandleSaveCreate(fields)
    \/ \E id \in QuestionIds :
           \E fields \in UNION {[1..n -> FieldValues] : n \in 1..DistractorColumns} :
               HandleSaveUpdate(id, fields)
    \/ \E id \in QuestionIds : DeleteQuestion(id)
    \/ \E selectedQuestions \in SelectionLists :
           SelectMatchQuestions(selectedQuestions)
    \/ \E failing \in SUBSET QuestionIds : LoadMatchQuestions(failing)

(***************************************************************************)
(* Part III: settings                                                      *)
(***************************************************************************)
TeamIds == {"team1"}
SettingsKeys == TeamIds \cup {"default"}
\* the teamId argument: a team id, the empty string, or left out
TeamIdArgs == TeamIds \cup {"", "undefined"}

\* `if (teamId)` / `teamId || 'default'`
Truthy(teamId) == teamId \notin {"", "undefined"}

DefaultQuestionTime == 10
DefaultHesitationTime == 5
DefaultWpm == 150

HardcodedSettings ==
    [questionTime |-> DefaultQuestionTime,
     hesitationTime |-> DefaultHesitationTime,
     wpm |-> DefaultWpm]

\* getGameSettings looking at the 'default' record first
GetGameSettingsDefaultFirst(teamId) ==
    IF settingsDocs["default"].exists
    THEN settingsDocs["default"].data
    ELSE IF Truthy(teamId) /\ settingsDocs[teamId].exists
         THEN settingsDocs[teamId].data
         ELSE HardcodedSettings

\* getGameSettings
GetGameSettings(teamId) ==
    IF Truthy(teamId) /\ settingsDocs[teamId].exists
    THEN settingsDocs[teamId].data
    ELSE IF settingsDocs["default"].exists
         THEN settingsDocs["default"].data
         ELSE HardcodedSettings

\* a caller of getGameSettings (MatchPlayPage.loadMatch)
LoadGameSettings(teamId) ==
    /\ settingsCall' = [made |-> TRUE, teamId |-> teamId, docs |-> settingsDocs,
                        settings |-> GetGameSettings(teamId)]
    /\ UNCHANGED settingsDocs
    /\ UNCHANGED <<matchVars, sessionVars, bankVars>>

\* updateGameSettings: setDoc(doc(db, 'settings', teamId || 'default'))
UpdateGameSettings(settings, teamId) ==
    /\ settingsDocs' =
           [settingsDocs EXCEPT ![IF Truthy(teamId) THEN teamId ELSE "default"] =
                                    Doc(settings)]
    /\ UNCHANGED settingsCall
    /\ UNCHANGED <<matchVars, sessionVars, bankVars>>

InitSettings ==
    /\ settingsDocs = [k \in SettingsKeys |-> NoDoc]
    /\ settingsCall = [made |-> FALSE, teamId |-> "undefined",
                       docs |-> [k \in SettingsKeys |-> NoDoc],
                       settings |-> HardcodedSettings]

NextSettings ==
    \/ \E teamId \in TeamIdArgs : LoadGameSettings(teamId)
    \/ \E settings \in SettingsChoices : \E teamId \in TeamIdArgs :
           UpdateGameSettings(settings, teamId)

(***************************************************************************)
(* Part I: claims                                                          *)
(***************************************************************************)
RECURSIVE SumOver(_, _)
SumOver(f, S) ==
    IF S = {} THEN 0
    ELSE LET x == CHOOSE y \in S : TRUE IN f[x] + SumOver(f, S \ {x})

\* C1: over all completion checks of a match, the status write to
\* 'completed' is performed by exactly one of them: no second check writes
\* the status.
C1_OneStatusWrite == SumOver(statusWrites, Players) <= 1

\* C2: each roster participant and the coach receive exactly one match_end
\* notification for the match: nobody is notified twice.
C2_OneNotificationEach == \A u \in Recipients : notifications[u] <= 1

\* C3: at most one matchHistory ResultEntry exists per (gameId, playerId).
C3_OneResultEntryPerPlayer == \A p \in Players : matchHistory[p] <= 1

\* C6: the status of the game document only ever changes waiting->active
\* and active->completed (after its creation as waiting).
C6_StatusStepsInOrder ==
    [][status' # status =>
          \/ status = "none" /\ status' = "waiting"
          \/ status = "waiting" /\ status' = "active"
          \/ status = "active" /\ status' = "completed"]_vars

RosterDone == \A q \in playerIds : matchHistory[q] >= 1

\* C29: a match_end notification is created only once the status of the
\* match has been written as completed and every participant of the roster
\* has a matchHistory entry; while the status is waiting or active no
\* notification exists.
C29_NotifyOnlyAfterCompletion ==
    /\ [][notifications' # notifications
             => (status = "completed" /\ RosterDone)]_vars
    /\ [](status \in {"waiting", "active"}
             => \A u \in Recipients : notifications[u] = 0)

\* C30: persisting a finished session is all-or-nothing for the player's
\* aggregates: outside the step between the two writes, gamesPlayed has been
\* increased once for each matchHistory entry of the player, also after a
\* store operation of endGame failed, and never more often.
C30_StatsMatchResultEntries ==
    \A p \in Players :
        /\ gamesPlayed[p] <= matchHistory[p]
        /\ (pc[p] # "stats" => gamesPlayed[p] = matchHistory[p])

\* C15: when the participants of the roster finish one after another, a
\* completion check that finds the roster not fully satisfied writes no
\* status and sends no notification; the check that finds the entries of
\* the whole roster moves the status to completed and is the only one that
\* sends notifications, one to the coach and one to each participant.  A
\* one-participant roster is satisfied by the participant's own completion.
C15_LastCheckCompletes ==
    /\ [](\A p \in Players : pc[p] = "postCheck" => ~RosterDone)
    /\ [](\A p \in Players : pc[p] = "updateGame" => RosterDone)
    /\ [](SumOver(statusWrites, Players) <= 1)
    /\ [](\A u \in Recipients : notifications[u] <= 1)
    /\ []((\A p \in Players : pc[p] = "idle") /\ SumOver(statusWrites, Players) = 1
            => /\ status = "completed"
               /\ \A u \in playerIds \cup {Coach} : notifications[u] = 1)
    /\ [][\A p \in Players :
             pc[p] \in {"getGame", "readHistories", "postCheck"} /\ ~RosterDone
                 => /\ statusWrites'[p] = statusWrites[p]
                    /\ notifications' = notifications
                    /\ pc'[p] \notin {"updateGame", "notifyCoach", "notifyPlayers"}]_vars

\* C17: when endGame finds the participant's identity missing or
\* inconsistent (no current user, no user data, no game id, or a uid that
\* does not match the auth uid), it writes nothing: no matchHistory entry,
\* no player statistics, no status, no notification, and the call ends there.
IdentityMissing(id) ==
    \/ id.currentUser = "none"
    \/ id.userData = "none"
    \/ ~id.gameId
    \/ id.authUser # id.currentUser
    \/ id.userData # id.currentUser
    \/ id.finalAuthUser # id.currentUser

C20_FailedSendDoesNotBlock ==
    [][\A p \in Players :
          pc[p] \in {"notifyCoach", "notifyPlayers", "fallbackNotifyCoach",
                     "fallbackNotifyPlayer"}
          /\ <<pc[p], notifyTodo[p]>>' # <<pc[p], notifyTodo[p]>>
          /\ notifications' = notifications
              => /\ status' = "completed"
                 /\ pc'[p] = CASE pc[p] = "notifyCoach" -> "notifyPlayers"
                               [] pc[p] = "notifyPlayers" ->
                                      IF notifyTodo'[p] = {} THEN "idle"
                                                             ELSE "notifyPlayers"
                               [] pc[p] = "fallbackNotifyCoach" ->
                                      "fallbackNotifyPlayer"
                               [] pc[p] = "fallbackNotifyPlayer" -> "idle"]_vars

\* C28: the roster of a match changes only while its status is waiting:
\* whatever the interleaving of joinMatch with the coach's Begin and Cancel,
\* no id is added once the status is active or completed, and a join never
\* removes an id or adds one that is already in the roster.
C28_RosterChangesOnlyWhileWaiting ==
    [][playerIds' # playerIds
          => /\ status = "waiting"
             /\ \E p \in Players \ playerIds : playerIds' = playerIds \cup {p}]_vars

\* C26: when every participant of the roster of an active match has finished
\* (has a matchHistory entry and is out of endGame), the match does not stay
\* active: some completion check moves the status to completed, also when a
\* participant's updatePlayerStats failed after the entry was written.
C26_AllFinishedLeadsToCompleted ==
    []<>~(/\ status = "active"
          /\ playerIds # {}
          /\ RosterDone
          /\ \A p \in Players : pc[p] = "idle")

\* C23: a completion check reads the match histories a second time only
\* when the first read did not show the caller's own entry, and only once;
\* after its verdict it ends: the delayed status re-check writes nothing and
\* nothing attempts the status transition a further time.
C23_OneRetryThenEnd ==
    [][\A p \in Players :
          /\ (pc'[p] = "retryRead" /\ pc[p] # "retryRead")
                => (pc[p] = "readHistories" /\ completedPlayerIds'[p] = {p})
          /\ (pc[p] = "retryRead" /\ pc'[p] # "retryRead")
                => pc'[p] \in {"updateGame", "postCheck", "idle"}
          /\ (pc[p] = "postCheck" /\ pc'[p] # "postCheck")
                => (pc'[p] = "idle" /\ status' = status)
          /\ (pc'[p] = "updateGame" /\ pc[p] # "updateGame")
                => pc[p] \in {"readHistories", "retryRead"}
          /\ (pc[p] = "updateGame" /\ pc'[p] # "updateGame")
                => pc'[p] \in {"notifyCoach", "postCheck", "idle"}
          /\ (pc'[p] = "fallbackUpdateGame" => pc[p] = "fallbackUpdateGame")]_vars

(***************************************************************************)
(* Part II: claims                                                         *)
(***************************************************************************)
HasTimer(kind) == \E i \in 1..Len(timers) : timers[i].kind = kind

C5_OneOutcomePerQuestion ==
    \A i \in DOMAIN outcomes : Len(outcomes[i]) <= 1

\* C7: in every ResultEntry handed to createMatchHistory, score is the sum
\* over the subjects of correctBySubject.
C7_ScoreIsSumOfCorrect ==
    \A k \in 1..Len(resultEntries) :
        resultEntries[k].score = SumOver(resultEntries[k].correctBySubject, Subjects)

\* C8: in every ResultEntry handed to createMatchHistory, the sum over the
\* subjects of totalBySubject is total, the number of questions.
C8_TotalIsSumOfAttempted ==
    \A k \in 1..Len(resultEntries) :
        SumOver(resultEntries[k].totalBySubject, Subjects) = resultEntries[k].total

\* C9: once the hesitation countdown of the buzzed question has reached
\* zero, no answer submission is accepted: no step records a correct or
\* incorrect outcome or changes the score or the per-subject counters of
\* correct answers.
C9_NoAnswerAfterHesitationExpiry ==
    [][(hasBuzzed /\ hesitationTimer = 0) =>
          /\ playerScore' = playerScore
          /\ correctBySubject' = correctBySubject
          /\ \A i \in DOMAIN outcomes :
                 Len(outcomes'[i]) > Len(outcomes[i]) =>
                     outcomes'[i][Len(outcomes'[i])] \notin {"correct", "incorrect"}]_vars

\* C10: the question countdown and the hesitation countdown are never both
\* running, and once a buzz has been accepted for the current question its
\* question countdown does not run again.
C10_TimersMutuallyExclusive ==
    /\ ~(HasTimer("questionTimer") /\ HasTimer("hesitationTimer"))
    /\ (\E k \in 1..Len(buzzTimes) : buzzTimes[k].q = currentQuestionIndex)
           => ~HasTimer("questionTimer")


\* C11: the question index advances only from N to N+1, and only once
\* question N has a terminal outcome; the reveal of a question runs only when every
\* question before it has one.
C11_NextQuestionAfterOutcome ==
    /\ [](\A j \in 0..(currentQuestionIndex - 1) : outcomes[j] # <<>>)
    /\ [](\A i \in 1..Len(timers) :
             timers[i].kind = "reveal" =>
                 \A j \in 0..(timers[i].c.currentQuestionIndex - 1) : outcomes[j] # <<>>)
    /\ [][currentQuestionIndex' > currentQuestionIndex =>
             /\ currentQuestionIndex' = currentQuestionIndex + 1
             /\ outcomes[currentQuestionIndex] # <<>>]_vars

C11_SecondQuestionRevealing ==
    /\ currentQuestionIndex = 1
    /\ outcomes[0] # <<>>
    /\ HasTimer("reveal")
    /\ revealedWordsCount = 0

\* C12: a timer callback armed for a question has no effect once that
\* question has been resolved by another path or is no longer current: no
\* timer-driven resolution (hesitation-expired, timeout) is applied to a
\* question that already has an outcome, and the buzzed state of the current
\* question is never reset without the index moving on (no restart), and
\* the index never moves back.
C12_StaleCallbacksHaveNoEffect ==
    [][/\ \A i \in DOMAIN outcomes :
              (Len(outcomes'[i]) > Len(outcomes[i])
               /\ outcomes'[i][Len(outcomes'[i])] \in {"hesitation-expired", "timeout"})
                  => outcomes[i] = <<>>
       /\ (hasBuzzed /\ ~hasBuzzed') => currentQuestionIndex' # currentQuestionIndex
       /\ currentQuestionIndex' >= currentQuestionIndex]_vars

\* C13: with no buzz a question resolves as timeout exactly questionTime
\* seconds after it started, the countdown covering the reveal as well.
C13_TimeoutAtQuestionTime ==
    [][\A i \in DOMAIN outcomes :
           (Len(outcomes'[i]) > Len(outcomes[i])
            /\ outcomes'[i][Len(outcomes'[i])] = "timeout")
               => questionStartTime = gameSettings.questionTime]_vars

\* C19: a buzz attempt made while the question is not live (not started
\* yet, or already resolved and showing its result) is rejected: hasBuzzed
\* is unchanged, no buzz latency is recorded, no hesitation countdown
\* starts.
C19_BuzzRejectedWhenNotLive ==
    [][buzzAttempts' = buzzAttempts + 1 /\ (questionStartTime = Null \/ showResult)
          => /\ hasBuzzed' = hasBuzzed
             /\ buzzTimes' = buzzTimes
             /\ hesitationTimer' = hesitationTimer]_vars

\* C21: when the hesitation countdown expires with no answer, the question
\* resolves as hesitation-expired at the moment the countdown reaches zero,
\* hesitationTime seconds after the buzz: the score and correctBySubject are
\* unchanged and totalBySubject of the question's subject grows by one.
C21_HesitationExpiredAtZero ==
    [][\A i \in DOMAIN outcomes :
           (Len(outcomes'[i]) > Len(outcomes[i])
            /\ outcomes'[i][Len(outcomes'[i])] = "hesitation-expired")
               => /\ playerScore' = playerScore
                  /\ correctBySubject' = correctBySubject
                  /\ totalBySubject' =
                         [totalBySubject EXCEPT ![QuestionAt(i).subjectArea] = @ + 1]
                  /\ buzzTimes # <<>>
                  /\ questionStartTime - buzzTimes[Len(buzzTimes)].t =
                         gameSettings.hesitationTime]_vars

\* C22: once a buzz has been accepted for a question the revealed-word
\* count stays as it is until the next question starts, and the reveal
\* interval is gone (clearing it again changes nothing).
C22_RevealStopsAtBuzz ==
    /\ [](hasBuzzed => ~HasTimer("reveal"))
    /\ [][hasBuzzed /\ currentQuestionIndex' = currentQuestionIndex
             => revealedWordsCount' = revealedWordsCount]_vars

\* C24: a question whose timer expired before any buzz is resolved as
\* timeout and stays so: while it is the current question no buzz is
\* registered for it, no hesitation countdown runs, and it has no outcome
\* but the timeout.
C24_TimeoutStaysTimeout ==
    \A i \in DOMAIN outcomes :
        (i = currentQuestionIndex /\ outcomes[i] # <<>> /\ outcomes[i][1] = "timeout")
            => /\ ~hasBuzzed
               /\ \A k \in 1..Len(buzzTimes) : buzzTimes[k].q # i
               /\ hesitationTimer = Null
               /\ outcomes[i] = <<"timeout">>

\* C27: within a session the question index never decreases and a question
\* that has been started (reveal count reset, countdown armed) is not started
\* again while it is the current one, whatever the order of the answer,
\* hesitation and advance timeouts; the score, on screen and as persisted,
\* never exceeds the number of questions.
C27_EachQuestionStartedOnce ==
    /\ [][currentQuestionIndex' >= currentQuestionIndex]_vars
    /\ [][(currentQuestionIndex' = currentQuestionIndex /\ questionStartTime # Null)
             => (questionStartTime' # Null /\ questionStartTime' >= questionStartTime)]_vars
    /\ [](playerScore <= Len(questions))
    /\ [](\A k \in DOMAIN resultEntries : resultEntries[k].score <= Len(questions))

\* C25: with fair timers and no user input every question of the session
\* reaches an outcome and the session calls endGame, also when a question
\* of the list has no answer data: the session never stalls.
C25_SessionEndsWithoutInput ==
    <>(/\ resultEntries # <<>>
       /\ \A i \in DOMAIN outcomes : outcomes[i] # <<>>)

(***************************************************************************)
(* Part III: claims                                                        *)
(***************************************************************************)
\* C14: when a question id of the match cannot be fetched, loadMatch ends in
\* an error: the page never holds a question list shorter than the match's
\* questionIds.
C14_MissingQuestionAborts ==
    matchPage.error = "" => Len(matchPage.questions) = Len(matchPage.questionIds)

\* C16: getGameSettings returns the team's record when a teamId is given
\* and that record exists, otherwise the 'default' record when it exists,
\* otherwise the hardcoded values 10, 5, 150.
C16_SettingsFallbackOrder ==
    settingsCall.made =>
        LET team == Truthy(settingsCall.teamId)
                    /\ settingsCall.docs[settingsCall.teamId].exists
            default == settingsCall.docs["default"].exists
        IN /\ team => settingsCall.settings = settingsCall.docs[settingsCall.teamId].data
           /\ (~team /\ default) => settingsCall.settings = settingsCall.docs["default"].data
           /\ (~team /\ ~default) =>
                  settingsCall.settings = [questionTime |-> 10, hesitationTime |-> 5,
                                           wpm |-> 150]

C16_DefaultUsedForTeam ==
    /\ settingsCall.made
    /\ settingsCall.teamId \in TeamIds
    /\ ~settingsCall.docs[settingsCall.teamId].exists
    /\ settingsCall.docs["default"].exists
    /\ settingsCall.settings = settingsCall.docs["default"].data

\* C18: a question with no distractor (no distractor text, as the CSV
\* import counts them) is never written to the bank, by the forms or by a
\* CSV import, and none is handed to a session.
C18_NoQuestionWithoutDistractors ==
    /\ \A id \in QuestionIds :
           questionDocs[id].exists => CountGiven(questionDocs[id].data) >= 1
    /\ \A i \in 1..Len(matchPage.questions) :
           CountGiven(matchPage.questions[i].distractors) >= 1

Init == MatchIdle /\ NoSession /\ InitBank /\ InitSettings
Next == NextMatch
Spec == Init /\ [][Next]_vars

SequentialSpec == Init /\ [][NextSequential]_vars
StatsFailureSpec ==
    Init /\ [][NextStatsFailure]_vars /\ WF_vars(EndGameProceeds)
IdentitySpec == Init /\ [][NextIdentity]_vars
SessionInit == MatchIdle /\ InitSession /\ InitBank /\ InitSettings
SessionSpec == SessionInit /\ [][NextSession]_vars
NoInputInit == MatchIdle /\ InitAnySession /\ InitBank /\ InitSettings
NoInputSpec == NoInputInit /\ [][NextNoInput]_vars /\ WF_vars(NextNoInput)

BankSpec == Init /\ [][NextBank]_vars
SettingsSpec == Init /\ [][NextSettings]_vars

====
